---- MODULE Spec2Model ----
(***************************************************************************)
(* Model of diveddie/siga-studio-v1:                                       *)
(*   - src/server.js: the hourly cleanupOldFiles sweep of the uploads      *)
(*     directory, POST /generate-image and POST /get-segments;             *)
(*   - src/client/components/ToolPanel.jsx: the ToolPanel component (the   *)
(*     last definition of the file, lines 431-610), its effects and the    *)
(*     asynchronous callbacks they start.                                  *)
(* Time is a discrete clock.  For the sweep one hour is TicksPerHour       *)
(* ticks; for the request handlers a tick is one millisecond of            *)
(* Date.now().                                                             *)
(***************************************************************************)
EXTENDS Integers, Sequences, FiniteSets, Bags, TLC

\* ---------------------------------------------------------------- bounds
MaxFiles == 2
TicksPerHour == 2
MaxClock == 6
NumReq == 2
NumSeg == 1
MaxMasks == 2
MaxMs == 1
MaxSessions == 2
MaxEvents == 2
MaxCalls == 2
MaxRuns == 2

Files == 1..MaxFiles
NoStat == 0 - 1
NoSweep == 0 - 1

VARIABLES
  \* --- uploads directory and the timer (server.js 24-58, 260-261)
  clock,        \* Date.now(), in ticks
  nextFire,     \* the tick at which the setInterval timer is next due
  dir,          \* the names in the uploads directory
  ctime,        \* ctime of each file (0 for a name not in dir)
  pcSweep,      \* position of cleanupOldFiles
  files,        \* const files = await readdir(uploadsDir)
  idx,          \* position of the for..of loop in files
  now,          \* const now = Date.now()
  seen,         \* stats.ctimeMs as returned by stat, per file (NoStat: not statted)
  deleted,      \* the files this sweep has unlinked
  sweepErr,     \* the sweep ended in its catch block
  sweepStart,   \* the tick at which the current/last sweep was started
  \* --- the request handlers (server.js 86-130, 132-239)
  dateNow,      \* Date.now() in milliseconds, as the handlers read it
  rq,           \* per /generate-image request: locals, position, responses
  sg,           \* per /get-segments request: locals, position, responses
  storage,      \* the objects held by the storage buckets
  \* --- ToolPanel (ToolPanel.jsx 431-610)
  isSessionActive,    \* prop
  events,             \* prop: the event stream, most recent first
  session,            \* number of sessions started so far
  nextCall,           \* number of function calls the model has made so far
  functionAdded,      \* useState(false)
  functionCallOutput, \* useState(null)
  currentImageUrl,    \* useState(null)
  error,              \* useState(null)
  dirty,              \* a render is pending: props or state have changed
  lastActive,         \* isSessionActive as of the last commit (reset effect's deps)
  timers,             \* bag of the pending setTimeout callbacks (follow-ups)
  inflight,           \* bag of the generateImage calls that have not returned
  sent,               \* bag of what sendClientEvent has been called with
  registered,         \* bag of the sessions (and isSessionActive) in which
                      \* session.update was sent
  processed,          \* per function call: times the effect has handled it
  shown               \* what the last committed render put in the panel

cleanupVars == <<clock, nextFire, dir, ctime, pcSweep, files, idx, now, seen,
                 deleted, sweepErr, sweepStart>>

serverVars == <<dateNow, rq, sg, storage>>

panelVars == <<isSessionActive, events, session, nextCall, functionAdded,
               functionCallOutput, currentImageUrl, error, dirty, lastActive,
               timers, inflight, sent, registered, processed, shown>>

vars == <<cleanupVars, serverVars, panelVars>>

\* ------------------------------------------------------- cleanupOldFiles

\* All orders in which readdir may list the set S.
RECURSIVE Perms(_)
Perms(S) ==
  IF S = {} THEN {<<>>}
  ELSE UNION {{<<x>> \o p : p \in Perms(S \ {x})} : x \in S}

\* const oneHourAgo = now - 60 * 60 * 1000
OneHourAgo(t) == t - TicksPerHour

\* Mutation of IsOld: the comparison lets through a file exactly one hour old.
IsOld_OffByOne(ct, t) == ct <= OneHourAgo(t)

\* if (stats.ctimeMs < oneHourAgo)
IsOld(ct, t) == ct < OneHourAgo(t)

\* Mutation of Rearm: the timer comes due every two hours.
Rearm_TwoHours(t) == t + 2 * TicksPerHour

\* setInterval(cleanupOldFiles, 60 * 60 * 1000): the timer is re-armed one
\* interval after the tick it was due.
Rearm(t) == t + TicksPerHour

InitCleanup ==
  /\ clock = 0
  /\ nextFire = Rearm(0)
  /\ dir = {}
  /\ ctime = [f \in Files |-> 0]
  /\ pcSweep = "idle"
  /\ files = <<>>
  /\ idx = 1
  /\ now = 0
  /\ seen = [f \in Files |-> NoStat]
  /\ deleted = {}
  /\ sweepErr = FALSE
  /\ sweepStart = NoSweep

\* Time passes.  The timer callback runs at the tick it is due, and a sweep
\* is over before the timer is due again.
Tick ==
  /\ clock < MaxClock
  /\ clock < nextFire
  /\ (pcSweep \notin {"idle", "done"}) => clock + 1 < nextFire
  /\ clock' = clock + 1
  /\ UNCHANGED <<nextFire, dir, ctime, pcSweep, files, idx, now, seen,
                 deleted, sweepErr, sweepStart,
                 serverVars, panelVars>>

\* Something outside the server creates a file in uploads/.
AddFile(f) ==
  /\ f \notin dir
  /\ dir' = dir \cup {f}
  /\ ctime' = [ctime EXCEPT ![f] = clock]
  /\ UNCHANGED <<clock, nextFire, pcSweep, files, idx, now, seen, deleted,
                 sweepErr, sweepStart,
                 serverVars, panelVars>>

\* Something outside the server changes a file: its ctime becomes the
\* current time.
TouchFile(f) ==
  /\ f \in dir
  /\ ctime[f] # clock
  /\ ctime' = [ctime EXCEPT ![f] = clock]
  /\ UNCHANGED <<clock, nextFire, dir, pcSweep, files, idx, now, seen,
                 deleted, sweepErr, sweepStart,
                 serverVars, panelVars>>

\* Something outside the server removes a file.
RemoveFile(f) ==
  /\ f \in dir
  /\ dir' = dir \ {f}
  /\ ctime' = [ctime EXCEPT ![f] = 0]
  /\ UNCHANGED <<clock, nextFire, pcSweep, files, idx, now, seen, deleted,
                 sweepErr, sweepStart,
                 serverVars, panelVars>>

\* The interval timer fires and calls cleanupOldFiles.
SweepStart ==
  /\ clock = nextFire
  /\ pcSweep \in {"idle", "done"}
  /\ nextFire' = Rearm(nextFire)
  /\ pcSweep' = "readdir"
  /\ sweepStart' = clock
  /\ files' = <<>>
  /\ idx' = 1
  /\ seen' = [f \in Files |-> NoStat]
  /\ deleted' = {}
  /\ sweepErr' = FALSE
  /\ UNCHANGED <<clock, dir, ctime, now,
                 serverVars, panelVars>>

\* The catch block: log and return.
SweepCatch ==
  /\ pcSweep' = "done"
  /\ sweepErr' = TRUE

\* const files = await fs.promises.readdir(uploadsDir)
Readdir ==
  /\ pcSweep = "readdir"
  /\ \/ /\ \E order \in Perms(dir) : files' = order
        /\ pcSweep' = "now"
        /\ UNCHANGED sweepErr
     \/ /\ SweepCatch
        /\ UNCHANGED files
  /\ UNCHANGED <<clock, nextFire, dir, ctime, idx, now, seen, deleted,
                 sweepStart,
                 serverVars, panelVars>>

\* const now = Date.now()
ReadNow ==
  /\ pcSweep = "now"
  /\ now' = clock
  /\ pcSweep' = "loop"
  /\ UNCHANGED <<clock, nextFire, dir, ctime, files, idx, seen, deleted,
                 sweepErr, sweepStart,
                 serverVars, panelVars>>

\* const stats = await fs.promises.stat(filepath); if (stats.ctimeMs < oneHourAgo)
Stat ==
  /\ pcSweep = "loop"
  /\ idx <= Len(files)
  /\ LET f == files[idx] IN
       \/ /\ f \in dir
          /\ seen' = [seen EXCEPT ![f] = ctime[f]]
          /\ IF IsOld(ctime[f], now)
               THEN pcSweep' = "unlink" /\ idx' = idx
               ELSE pcSweep' = "loop" /\ idx' = idx + 1
          /\ UNCHANGED sweepErr
       \/ /\ SweepCatch
          /\ UNCHANGED <<seen, idx>>
  /\ UNCHANGED <<clock, nextFire, dir, ctime, files, now, deleted, sweepStart,
                 serverVars, panelVars>>

\* await unlink(filepath)
Unlink ==
  /\ pcSweep = "unlink"
  /\ LET f == files[idx] IN
       \/ /\ f \in dir
          /\ dir' = dir \ {f}
          /\ ctime' = [ctime EXCEPT ![f] = 0]
          /\ deleted' = deleted \cup {f}
          /\ idx' = idx + 1
          /\ pcSweep' = "loop"
          /\ UNCHANGED sweepErr
       \/ /\ SweepCatch
          /\ UNCHANGED <<dir, ctime, deleted, idx>>
  /\ UNCHANGED <<clock, nextFire, files, now, seen, sweepStart,
                 serverVars, panelVars>>

\* The for..of loop is exhausted: the sweep returns without error.
SweepEnd ==
  /\ pcSweep = "loop"
  /\ idx > Len(files)
  /\ pcSweep' = "done"
  /\ UNCHANGED <<clock, nextFire, dir, ctime, files, idx, now, seen, deleted,
                 sweepErr, sweepStart,
                 serverVars, panelVars>>

NextCleanup ==
  \/ Tick
  \/ \E f \in Files : AddFile(f)
  \/ \E f \in Files : TouchFile(f)
  \/ \E f \in Files : RemoveFile(f)
  \/ SweepStart
  \/ Readdir
  \/ ReadNow
  \/ Stat
  \/ Unlink
  \/ SweepEnd

\* ------------------------------------------------- the request handlers

Reqs == 1..NumReq
SegReqs == 1..NumSeg

\* `generated_${timestamp}.webp`
GenFilename(ts) == <<"generated_", ts, ".webp">>

\* `mask_combined_${timestamp}.png`
CombinedMaskFilename(ts) == <<"mask_combined_", ts, ".png">>

\* `mask_individual_${timestamp}_${index}.png`
MaskFilename(ts, index) == <<"mask_individual_", ts, "_", index, ".png">>

\* supabase.storage.from(bucket).getPublicUrl(filename)
PublicUrl(b, name) == <<"storage", b, name>>

\* What the third parties hand out: the generated image of request r, the
\* provider's combined mask and its i-th mask (i counts from 0, as index).
ReplicateUrl(r) == <<"replicate", r>>
ProviderCombined(r) == <<"segmind", r, "combined">>
ProviderMask(r, i) == <<"segmind", r, i>>

NoError == [message |-> "", response |-> ""]
Thrown(msg) == [message |-> msg, response |-> ""]
\* An axios error of a request the server answered: error.response.data is set.
AxiosError == [message |-> "Request failed", response |-> "segmind error body"]

\* error.response?.data || error.message
Details(e) == IF e.response # "" THEN e.response ELSE e.message

\* A /generate-image request that has not arrived yet.
IdleReq ==
  [pc |-> "none", ts |-> 0, up |-> "", calls |-> {}, err |-> NoError,
   resp |-> <<>>]

\* A /get-segments request that has not arrived yet.
IdleSeg ==
  [pc |-> "none", url |-> "", n |-> 0, masks |-> <<>>, ts |-> 0, up |-> "",
   tasks |-> <<>>, calls |-> {}, err |-> NoError, resp |-> <<>>]

\* One async callback of the map over response.data.masks.
NewTask == [pc |-> "fetch", url |-> <<>>]

InitServer ==
  /\ dateNow = 0
  /\ rq = [r \in Reqs |-> IdleReq]
  /\ sg = [r \in SegReqs |-> IdleSeg]
  /\ storage = {}

\* res.json(body) / res.status(500).json(body)
Respond(q, status, body) ==
  [q EXCEPT !.pc = "done",
            !.resp = Append(@, [status |-> status, body |-> body])]

\* catch (error) of /generate-image
GenCatch(q, e) ==
  Respond([q EXCEPT !.err = e], 500, [error |-> "Failed to generate image"])

\* catch (error) of /get-segments
SegCatch(q, e) ==
  Respond([q EXCEPT !.err = e], 500,
          [error |-> "Failed to analyze image segments",
           details |-> Details(e)])

Exists(b, name) == \E o \in storage : o.bucket = b /\ o.name = name

\* storage.from(b).upload(name, content) without upsert, as the storage
\* service decides it: an existing name is refused; otherwise the object is
\* stored, or the service returns an error, or the call itself throws.
UploadOutcomes(b, name) ==
  IF Exists(b, name) THEN {"error"} ELSE {"ok", "error", "throw"}

Stored(b, name, owner, content) ==
  [bucket |-> b, name |-> name, owner |-> owner, content |-> content]

\* Milliseconds pass.
TickMs ==
  /\ dateNow < MaxMs
  /\ dateNow' = dateNow + 1
  /\ UNCHANGED <<rq, sg, storage, cleanupVars, panelVars>>

\* POST /generate-image arrives: replicate.run is called.  (Requests are
\* numbered in the order they arrive.)
GenArrive(r) ==
  /\ rq[r].pc = "none"
  /\ \A r2 \in Reqs : r2 < r => rq[r2].pc # "none"
  /\ rq' = [rq EXCEPT ![r] = [@ EXCEPT !.pc = "run",
                                       !.calls = @ \cup {"replicate"}]]
  /\ UNCHANGED <<dateNow, sg, storage, cleanupVars, panelVars>>

\* const output = await replicate.run(...); const imageUrl = output[0];
\* fetch(imageUrl) is called.
GenRun(r) ==
  /\ rq[r].pc = "run"
  /\ \/ rq' = [rq EXCEPT ![r] = [@ EXCEPT !.pc = "fetch",
                                          !.calls = @ \cup {"imageHost"}]]
     \/ rq' = [rq EXCEPT ![r] = GenCatch(@, Thrown("replicate.run failed"))]
  /\ UNCHANGED <<dateNow, sg, storage, cleanupVars, panelVars>>

\* const response = await fetch(imageUrl)
GenFetch(r) ==
  /\ rq[r].pc = "fetch"
  /\ \/ rq' = [rq EXCEPT ![r] = [@ EXCEPT !.pc = "buffer"]]
     \/ rq' = [rq EXCEPT ![r] = GenCatch(@, Thrown("fetch failed"))]
  /\ UNCHANGED <<dateNow, sg, storage, cleanupVars, panelVars>>

\* const imageBuffer = await response.arrayBuffer(); const timestamp =
\* Date.now(); the upload of filename is sent to the 'images' bucket.
GenBuffer(r) ==
  /\ rq[r].pc = "buffer"
  /\ \/ rq' = [rq EXCEPT ![r] = [@ EXCEPT !.pc = "upload", !.ts = dateNow,
                                          !.calls = @ \cup {"storage"}]]
     \/ rq' = [rq EXCEPT ![r] = GenCatch(@, Thrown("arrayBuffer failed"))]
  /\ UNCHANGED <<dateNow, sg, storage, cleanupVars, panelVars>>

\* The storage service handles the upload.
GenUploadArrives(r) ==
  /\ rq[r].pc = "upload"
  /\ \E res \in UploadOutcomes("images", GenFilename(rq[r].ts)) :
       /\ rq' = [rq EXCEPT ![r] = [@ EXCEPT !.pc = "uploaded", !.up = res]]
       /\ storage' =
            IF res = "ok"
              THEN storage \cup {Stored("images", GenFilename(rq[r].ts),
                                        <<"generate", r>>, ReplicateUrl(r))}
              ELSE storage
  /\ UNCHANGED <<dateNow, sg, cleanupVars, panelVars>>

\* Mutation of GenUploadFailed: the error the upload returns is not looked at.
GenUploadFailed_ErrorIgnored(up) == up = "throw"

\* if (error) throw error
GenUploadFailed(up) == up # "ok"

\* Mutation of GenSuccessBody: the filename is built again from a new
\* Date.now() instead of the one that was uploaded.
GenSuccessBody_NewTimestamp(q) ==
  <<[url |-> PublicUrl("images", GenFilename(dateNow))]>>

\* res.json([{ url: publicUrl }])
GenSuccessBody(q) == <<[url |-> PublicUrl("images", GenFilename(q.ts))]>>

\* const { data, error } = await upload(...); if (error) throw error;
\* getPublicUrl(filename); res.json([{ url: publicUrl }])
GenUploaded(r) ==
  /\ rq[r].pc = "uploaded"
  /\ rq' = [rq EXCEPT ![r] =
              IF GenUploadFailed(@.up)
                THEN GenCatch(@, Thrown("upload failed"))
                ELSE Respond(@, 200, GenSuccessBody(@))]
  /\ UNCHANGED <<dateNow, sg, storage, cleanupVars, panelVars>>

\* The steps of the handler of request r.
GenStep(r) ==
  \/ GenRun(r)
  \/ GenFetch(r)
  \/ GenBuffer(r)
  \/ GenUploadArrives(r)
  \/ GenUploaded(r)

NextGenerate ==
  \/ TickMs
  \/ \E r \in Reqs : GenArrive(r)
  \/ \E r \in Reqs : GenRun(r)
  \/ \E r \in Reqs : GenFetch(r)
  \/ \E r \in Reqs : GenBuffer(r)
  \/ \E r \in Reqs : GenUploadArrives(r)
  \/ \E r \in Reqs : GenUploaded(r)

\* Mutation of NoImageUrl: only an absent field is refused.
NoImageUrl_OnlyUndefined(url) == url = "undefined"

\* if (!req.body.currentImageUrl)
NoImageUrl(url) == url \in {"", "undefined"}

\* The values of req.body.currentImageUrl: absent, empty, or a URL.
ImageUrls == {"undefined", "", "https://host/image.webp"}

\* POST /get-segments arrives with body.currentImageUrl = url: the guard,
\* then imageUrlToBase64 calls axios.get.  (Requests are numbered in the
\* order they arrive.)
SegArrive(r, url) ==
  /\ sg[r].pc = "none"
  /\ \A r2 \in SegReqs : r2 < r => sg[r2].pc # "none"
  /\ sg' = [sg EXCEPT ![r] =
              IF NoImageUrl(url)
                THEN SegCatch([@ EXCEPT !.url = url],
                              Thrown("No image URL provided"))
                ELSE [@ EXCEPT !.url = url, !.pc = "image",
                               !.calls = @ \cup {"imageHost"}]]
  /\ UNCHANGED <<dateNow, rq, storage, cleanupVars, panelVars>>

\* const imageBase64 = await imageUrlToBase64(...); axios.post to Segmind.
SegImage(r) ==
  /\ sg[r].pc = "image"
  /\ \/ sg' = [sg EXCEPT ![r] = [@ EXCEPT !.pc = "segmind",
                                          !.calls = @ \cup {"segmind"}]]
     \/ sg' = [sg EXCEPT ![r] =
                 SegCatch(@, Thrown("Failed to fetch image"))]
  /\ UNCHANGED <<dateNow, rq, storage, cleanupVars, panelVars>>

\* response.data as Segmind returns it: with or without combined_mask, with
\* n masks or (n = -1) without a masks list.
ProviderData == [combined : BOOLEAN, n : (0 - 1)..MaxMasks]

\* (response.data.masks || [])
MasksOf(r, d) ==
  IF d.n < 0 THEN <<>> ELSE [i \in 1..d.n |-> ProviderMask(r, i - 1)]

\* const response = await axios.post(...); the combined_mask guard;
\* const timestamp = Date.now(); fetch(response.data.combined_mask)
SegSegmind(r) ==
  /\ sg[r].pc = "segmind"
  /\ \/ \E d \in ProviderData :
          sg' = [sg EXCEPT ![r] =
                   IF ~d.combined
                     THEN SegCatch(@, Thrown("Invalid response from Segmind API"))
                     ELSE [@ EXCEPT !.pc = "cfetch", !.n = d.n,
                                    !.masks = MasksOf(r, d),
                                    !.ts = dateNow,
                                    !.calls = @ \cup {"providerHost"}]]
     \/ sg' = [sg EXCEPT ![r] = SegCatch(@, AxiosError)]
  /\ UNCHANGED <<dateNow, rq, storage, cleanupVars, panelVars>>

\* await (await fetch(combined_mask)).arrayBuffer(); the upload of
\* combinedMaskFilename is sent to the 'masks' bucket.
SegCombinedFetch(r) ==
  /\ sg[r].pc = "cfetch"
  /\ \/ sg' = [sg EXCEPT ![r] = [@ EXCEPT !.pc = "cupload",
                                          !.calls = @ \cup {"storage"}]]
     \/ sg' = [sg EXCEPT ![r] = SegCatch(@, Thrown("fetch failed"))]
  /\ UNCHANGED <<dateNow, rq, storage, cleanupVars, panelVars>>

\* The storage service handles the upload of the combined mask.
SegCombinedUploadArrives(r) ==
  /\ sg[r].pc = "cupload"
  /\ \E res \in UploadOutcomes("masks", CombinedMaskFilename(sg[r].ts)) :
       /\ sg' = [sg EXCEPT ![r] = [@ EXCEPT !.pc = "cuploaded", !.up = res]]
       /\ storage' =
            IF res = "ok"
              THEN storage \cup {Stored("masks", CombinedMaskFilename(sg[r].ts),
                                        <<"segments", r>>, ProviderCombined(r))}
              ELSE storage
  /\ UNCHANGED <<dateNow, rq, cleanupVars, panelVars>>

\* Mutation of IndividualMaskUrls: the results come in the reverse order.
IndividualMaskUrls_Reversed(tasks) ==
  [i \in 1..Len(tasks) |-> tasks[Len(tasks) + 1 - i].url]

\* individualMaskUrls: the array Promise.all resolves to, entry i the value
\* the i-th callback returned.
IndividualMaskUrls(tasks) == [i \in 1..Len(tasks) |-> tasks[i].url]

\* res.json({ combined_mask: combinedMaskUrl, individual_masks: individualMaskUrls })
SegSuccessBody(q) ==
  [combined_mask |-> PublicUrl("masks", CombinedMaskFilename(q.ts)),
   individual_masks |-> IndividualMaskUrls(q.tasks)]

\* A callback that threw: at its fetch, or after its upload was refused.
TaskFailed(t) == t.pc \in {"failed", "refused"}

\* await Promise.all(...): resolves once every callback has returned, rejects
\* with the first callback that throws; then res.json or the catch block.
Settle(q) ==
  IF q.pc # "masks" THEN q
  ELSE IF \E i \in 1..Len(q.tasks) : TaskFailed(q.tasks[i])
    THEN SegCatch(q, Thrown("mask failed"))
  ELSE IF \A i \in 1..Len(q.tasks) : q.tasks[i].pc = "ok"
    THEN Respond(q, 200, SegSuccessBody(q))
  ELSE q

\* if (combinedError) throw combinedError; getPublicUrl; the map starts one
\* callback per mask, each calling fetch(maskUrl); await Promise.all.
SegCombinedUploaded(r) ==
  /\ sg[r].pc = "cuploaded"
  /\ sg' = [sg EXCEPT ![r] =
              IF @.up # "ok"
                THEN SegCatch(@, Thrown("upload failed"))
                ELSE Settle([@ EXCEPT !.pc = "masks",
                                      !.tasks = [i \in 1..Len(sg[r].masks)
                                                   |-> NewTask]])]
  /\ UNCHANGED <<dateNow, rq, storage, cleanupVars, panelVars>>

\* Callback i: await (await fetch(maskUrl)).arrayBuffer(); the upload of
\* maskFilename is sent.
MaskFetch(r, i) ==
  /\ i \in 1..Len(sg[r].tasks)
  /\ sg[r].tasks[i].pc = "fetch"
  /\ \/ sg' = [sg EXCEPT ![r] = [@ EXCEPT !.tasks[i].pc = "upload"]]
     \/ sg' = [sg EXCEPT ![r] = Settle([@ EXCEPT !.tasks[i].pc = "failed"])]
  /\ UNCHANGED <<dateNow, rq, storage, cleanupVars, panelVars>>

\* The storage service handles the upload of mask i: maskError is set
\* (or the call throws), or the object is stored.
MaskUploadArrives(r, i) ==
  /\ i \in 1..Len(sg[r].tasks)
  /\ sg[r].tasks[i].pc = "upload"
  /\ \E res \in UploadOutcomes("masks", MaskFilename(sg[r].ts, i - 1)) :
       /\ sg' = [sg EXCEPT ![r] =
                   [@ EXCEPT !.tasks[i].pc =
                                IF res = "ok" THEN "stored" ELSE "error"]]
       /\ storage' =
            IF res = "ok"
              THEN storage \cup {Stored("masks", MaskFilename(sg[r].ts, i - 1),
                                        <<"segments", r>>, sg[r].masks[i])}
              ELSE storage
  /\ UNCHANGED <<dateNow, rq, cleanupVars, panelVars>>

\* Callback i: if (maskError) throw maskError; return publicUrl
MaskUploaded(r, i) ==
  /\ i \in 1..Len(sg[r].tasks)
  /\ sg[r].tasks[i].pc \in {"stored", "error"}
  /\ sg' = [sg EXCEPT ![r] =
              Settle(IF @.tasks[i].pc = "error"
                       THEN [@ EXCEPT !.tasks[i].pc = "refused"]
                       ELSE [@ EXCEPT !.tasks[i].pc = "ok",
                                      !.tasks[i].url =
                                        PublicUrl("masks",
                                                  MaskFilename(sg[r].ts, i - 1))])]
  /\ UNCHANGED <<dateNow, rq, storage, cleanupVars, panelVars>>

NextSegments ==
  \/ TickMs
  \/ \E r \in SegReqs : \E url \in ImageUrls : SegArrive(r, url)
  \/ \E r \in SegReqs : SegImage(r)
  \/ \E r \in SegReqs : SegSegmind(r)
  \/ \E r \in SegReqs : SegCombinedFetch(r)
  \/ \E r \in SegReqs : SegCombinedUploadArrives(r)
  \/ \E r \in SegReqs : SegCombinedUploaded(r)
  \/ \E r \in SegReqs : \E i \in 1..MaxMasks : MaskFetch(r, i)
  \/ \E r \in SegReqs : \E i \in 1..MaxMasks : MaskUploadArrives(r, i)
  \/ \E r \in SegReqs : \E i \in 1..MaxMasks : MaskUploaded(r, i)

\* ------------------------------------------------------------ ToolPanel

\* The names of the tools of sessionUpdate, which the model may call.
FunctionNames ==
  {"display_color_palette", "generate_image", "edit_image", "create_image_mask"}

Null == [name |-> "", call |-> 0, imageUrl |-> 0]

\* An output of a response.done event: a function_call (of tool `name`, the
\* call-th call of the model) or, with name "message", another output.
Output(name, call) == [name |-> name, call |-> call]

IsFunctionCall(o) == o.name \in FunctionNames

\* The state a function call output is kept as: the output itself or, for
\* create_image_mask, the output with currentImageUrl in its arguments.
\* An image URL is the number of the call that generated it (0: null).
Kept(o, imageUrl) == [name |-> o.name, call |-> o.call, imageUrl |-> imageUrl]

Event(type, output) == [type |-> type, output |-> output]

\* The instructions of the follow-up response.create
Instructions(name) ==
  IF name = "display_color_palette"
    THEN "ask for feedback about the color palette - don't repeat the colors, just ask if they like the colors."
  ELSE IF name = "generate_image"
    THEN "ask for feedback about the generated image - don't repeat the prompt, just ask if they like the image."
  ELSE IF name = "create_image_mask"
    THEN "ask if they'd like to edit any of the segments."
  ELSE ""

\* The message sendClientEvent is called with (for a response.create, with
\* the call it follows up).
Sent(type, call, instructions) ==
  [type |-> type, call |-> call, instructions |-> instructions]

InitPanel ==
  /\ isSessionActive = FALSE
  /\ events = <<>>
  /\ session = 0
  /\ nextCall = 0
  /\ functionAdded = FALSE
  /\ functionCallOutput = Null
  /\ currentImageUrl = 0
  /\ error = ""
  /\ dirty = TRUE
  /\ lastActive = "unmounted"
  /\ timers = EmptyBag
  /\ inflight = EmptyBag
  /\ sent = EmptyBag
  /\ registered = EmptyBag
  /\ processed = [c \in 1..MaxCalls |-> 0]
  /\ shown = "unmounted"

\* The parent starts a session: the stream starts empty.
StartSession ==
  /\ ~dirty
  /\ ~isSessionActive
  /\ session < MaxSessions
  /\ isSessionActive' = TRUE
  /\ events' = <<>>
  /\ session' = session + 1
  /\ dirty' = TRUE
  /\ UNCHANGED <<nextCall, functionAdded, functionCallOutput, currentImageUrl,
                 error, lastActive, timers, inflight, sent, registered,
                 processed, shown, cleanupVars, serverVars>>

\* The parent stops the session; the stream is kept on screen or cleared.
StopSession(keep) ==
  /\ ~dirty
  /\ isSessionActive
  /\ isSessionActive' = FALSE
  /\ events' = IF keep THEN events ELSE <<>>
  /\ dirty' = TRUE
  /\ UNCHANGED <<session, nextCall, functionAdded, functionCallOutput,
                 currentImageUrl, error, lastActive, timers, inflight, sent,
                 registered, processed, shown, cleanupVars, serverVars>>

\* An event of the session arrives and is put in front of the stream: the
\* first one session.created (or some other event), later ones a
\* response.done with one output, or some other event.
ReceiveEvent(type, name) ==
  /\ ~dirty
  /\ isSessionActive
  /\ Len(events) < MaxEvents
  /\ IF events = <<>>
       THEN type \in {"session.created", "other"} /\ name = ""
       ELSE \/ type = "other" /\ name = ""
            \/ type = "response.done" /\ name = "message"
            \/ type = "response.done" /\ name \in FunctionNames
                 /\ nextCall < MaxCalls
  /\ IF name \in FunctionNames
       THEN /\ nextCall' = nextCall + 1
            /\ events' = <<Event(type, <<Output(name, nextCall + 1)>>)>> \o events
       ELSE /\ nextCall' = nextCall
            /\ events' = <<Event(type, IF name = "" THEN <<>>
                                        ELSE <<Output(name, 0)>>)>> \o events
  /\ dirty' = TRUE
  /\ UNCHANGED <<isSessionActive, session, functionAdded, functionCallOutput,
                 currentImageUrl, error, lastActive, timers, inflight, sent,
                 registered, processed, shown, cleanupVars, serverVars>>

\* if (!functionAdded && firstEvent.type === "session.created")
ShouldRegister(evs, added) ==
  /\ evs # <<>>
  /\ ~added
  /\ evs[Len(evs)].type = "session.created"

\* mostRecentEvent.type === "response.done" && mostRecentEvent.response.output:
\* the function_call outputs the forEach handles.
CallsToHandle(evs) ==
  IF evs # <<>> /\ evs[1].type = "response.done"
    THEN SelectSeq(evs[1].output, IsFunctionCall)
    ELSE <<>>

\* The body of the forEach for one function_call output o, as seen by the
\* render whose currentImageUrl is imageUrl: the value functionCallOutput is
\* left with, whether that value is an object made by this run (a state
\* update to it is never a no-op), whether generateImage is called, and
\* whether the follow-up timer is set.
HandleCall(o, imageUrl) ==
  IF o.name = "generate_image"
    THEN [fco |-> Null, fresh |-> FALSE, generate |-> TRUE, timer |-> TRUE]
  ELSE IF o.name = "create_image_mask"
    THEN IF imageUrl = 0
           THEN [fco |-> Null, fresh |-> FALSE, generate |-> FALSE,
                 timer |-> FALSE]
           ELSE [fco |-> Kept(o, imageUrl), fresh |-> TRUE, generate |-> FALSE,
                 timer |-> TRUE]
  ELSE [fco |-> Kept(o, 0), fresh |-> FALSE, generate |-> FALSE, timer |-> TRUE]

RECURSIVE Sum(_, _)
Sum(f, S) ==
  IF S = {} THEN 0
  ELSE LET x == CHOOSE y \in S : TRUE IN f[x] + Sum(f, S \ {x})

\* The number of times the effect has handled a function call so far.
TotalRuns == Sum(processed, DOMAIN processed)

\* The bag of the elements of a sequence.
RECURSIVE SeqToBag(_)
SeqToBag(seq) ==
  IF seq = <<>> THEN EmptyBag
  ELSE SetToBag({Head(seq)}) (+) SeqToBag(Tail(seq))

\* if (!isSessionActive) { setFunctionAdded(false); ... }: the reset effect
\* runs on mount and when isSessionActive has changed.
Dep(active) == IF active THEN "true" ELSE "false"

ResetRuns == lastActive # Dep(isSessionActive)

\* Mutation of DoesReset: the reset is made when the session has become
\* active.
DoesReset_WhenActive == ResetRuns /\ isSessionActive

DoesReset == ResetRuns /\ ~isSessionActive

\* The JSX the component returns: the tool output, or one of two placeholders.
Render(active, fco) ==
  IF active
    THEN IF fco # Null THEN <<"FunctionCallOutput", fco>>
         ELSE <<"p", "Ask for a color palette or image generation...">>
    ELSE <<"p", "Start the session to use these tools...">>

\* React commits a render (the JSX built from the props and state of that
\* render is put on screen): the effect of lines 465-527 runs (generateImage is
\* a new function at every render, so its dependencies have always changed),
\* then the reset effect of lines 530-537; the state updates they make are
\* applied together, and another render follows if the state has changed.
\* (The model stops before the effect has handled calls more than MaxRuns
\* times in all.)
Commit ==
  /\ dirty
  /\ LET register == ShouldRegister(events, functionAdded)
         calls == CallsToHandle(events)
         handled == [i \in 1..Len(calls) |-> HandleCall(calls[i], currentImageUrl)]
         newTimers == SelectSeq([i \in 1..Len(calls) |->
                                   IF handled[i].timer THEN calls[i]
                                   ELSE Output("", 0)],
                                IsFunctionCall)
         newGens == SelectSeq([i \in 1..Len(calls) |->
                                 IF handled[i].generate THEN calls[i]
                                 ELSE Output("", 0)],
                              IsFunctionCall)
         fa1 == IF register THEN TRUE ELSE functionAdded
         fco1 == IF calls = <<>> THEN functionCallOutput
                 ELSE handled[Len(calls)].fco
         fa2 == IF DoesReset THEN FALSE ELSE fa1
         fco2 == IF DoesReset THEN Null ELSE fco1
         fresh == ~DoesReset /\ calls # <<>> /\ handled[Len(calls)].fresh
         url2 == IF DoesReset THEN 0 ELSE currentImageUrl
         err2 == IF DoesReset THEN "" ELSE error
     IN /\ TotalRuns + Len(calls) <= MaxRuns
        /\ sent' = IF register
                     THEN sent (+) SetToBag({Sent("session.update", 0, "")})
                     ELSE sent
        /\ registered' =
             IF register
               THEN registered (+) SetToBag({[session |-> session,
                                              active |-> isSessionActive]})
               ELSE registered
        /\ timers' = timers (+) SeqToBag(newTimers)
        /\ inflight' = inflight (+) SeqToBag(newGens)
        /\ processed' = [c \in 1..MaxCalls |->
                           processed[c]
                           + Cardinality({i \in 1..Len(calls) : calls[i].call = c})]
        /\ functionAdded' = fa2
        /\ functionCallOutput' = fco2
        /\ currentImageUrl' = url2
        /\ error' = err2
        /\ lastActive' = Dep(isSessionActive)
        /\ shown' = Render(isSessionActive, functionCallOutput)
        /\ dirty' = (fresh \/ <<fa2, fco2, url2, err2>>
                                # <<functionAdded, functionCallOutput,
                                    currentImageUrl, error>>)
  /\ UNCHANGED <<isSessionActive, events, session, nextCall,
                 cleanupVars, serverVars>>

\* The setTimeout callback of a follow-up for output o runs (500 ms later):
\* sendClientEvent({type: "response.create", response: {instructions}})
TimerFires(o) ==
  /\ ~dirty
  /\ BagIn(o, timers)
  /\ sent' = sent (+) SetToBag({Sent("response.create", o.call,
                                     Instructions(o.name))})
  /\ timers' = timers (-) SetToBag({o})
  /\ UNCHANGED <<isSessionActive, events, session, nextCall, functionAdded,
                 functionCallOutput, currentImageUrl, error, dirty, lastActive,
                 inflight, registered, processed, shown, cleanupVars,
                 serverVars>>

\* generateImage returns: the fetch of /generate-image gave [{url}] ("url"),
\* gave {error} ("error"), or failed ("throw"); then the .then callback sets
\* functionCallOutput to the output, whatever generateImage returned.
GenerateImageReturns(o, result) ==
  /\ ~dirty
  /\ BagIn(o, inflight)
  /\ LET url2 == IF result = "url" THEN o.call ELSE currentImageUrl
         err2 == IF result = "url" THEN error ELSE "Failed to generate image"
         fco2 == Kept(o, 0)
     IN /\ currentImageUrl' = url2
        /\ error' = err2
        /\ functionCallOutput' = fco2
        /\ dirty' = (<<fco2, url2, err2>>
                       # <<functionCallOutput, currentImageUrl, error>>)
  /\ inflight' = inflight (-) SetToBag({o})
  /\ UNCHANGED <<isSessionActive, events, session, nextCall, functionAdded,
                 lastActive, timers, sent, registered, processed, shown,
                 cleanupVars, serverVars>>

\* The function_call outputs the model can have made.
Outputs == {Output(name, c) : name \in FunctionNames, c \in 1..MaxCalls}

NextPanel ==
  \/ StartSession
  \/ \E keep \in BOOLEAN : StopSession(keep)
  \/ \E type \in {"session.created", "other", "response.done"} :
       \E name \in FunctionNames \cup {"", "message"} : ReceiveEvent(type, name)
  \/ Commit
  \/ \E o \in Outputs : TimerFires(o)
  \/ \E o \in Outputs :
       \E result \in {"url", "error", "throw"} : GenerateImageReturns(o, result)

Init == InitCleanup /\ InitServer /\ InitPanel

SpecCleanup == Init /\ [][NextCleanup]_vars

SpecGenerate == Init /\ [][NextGenerate]_vars

SpecSegments == Init /\ [][NextSegments]_vars

SpecPanel == Init /\ [][NextPanel]_vars

Next == NextCleanup \/ NextGenerate \/ NextSegments \/ NextPanel

Spec == Init /\ [][Next]_vars

\* ------------------------------------------------------------ claims

Listed == {files[i] : i \in 1..Len(files)}

SweepDoneOk == pcSweep = "done" /\ ~sweepErr

\* C1: when a cleanupOldFiles sweep has completed without error, every file
\* of its directory listing whose ctime (as stat returned it) is more than
\* one hour before the sweep's start has been unlinked by it, and every file
\* it unlinked had a ctime more than one hour before the sweep's `now`
\* (so none with a ctime within the last hour).
C1_SweepDeletesExactlyOld ==
  SweepDoneOk =>
    /\ \A f \in Listed : seen[f] # NoStat
    /\ \A f \in Listed : seen[f] + TicksPerHour < sweepStart => f \in deleted
    /\ \A f \in deleted : f \in Listed /\ seen[f] + TicksPerHour < now
    /\ sweepStart <= now

C1_Witness ==
  /\ SweepDoneOk
  /\ \E f \in Listed : f \in deleted
  /\ \E f \in Listed : f \notin deleted /\ f \in dir

\* C2: the sweep is periodic and bounds the life of an untouched file.  The
\* timer is always due within the hour and, once the server has run for more
\* than an hour, the last sweep started at most one hour ago; so for a file
\* with ctime T a sweep has started after T + 1 hour once the clock has
\* passed T + 2 hours.  And when a sweep that met no error is over, no file
\* is left in the directory whose ctime is more than one hour before that
\* sweep's start.
C2_PeriodicSweepBoundsFileAge ==
  /\ clock <= nextFire
  /\ nextFire <= clock + TicksPerHour
  /\ clock > TicksPerHour =>
       sweepStart # NoSweep /\ clock - sweepStart <= TicksPerHour
  /\ \A f \in dir :
       clock > ctime[f] + 2 * TicksPerHour =>
         sweepStart > ctime[f] + TicksPerHour
  /\ SweepDoneOk =>
       \A f \in dir : ~(ctime[f] + TicksPerHour < sweepStart)

C2_Witness ==
  /\ SweepDoneOk
  /\ sweepStart >= 2 * TicksPerHour
  /\ \E f \in deleted :
       /\ seen[f] >= TicksPerHour - 1
       /\ seen[f] + TicksPerHour < sweepStart
       /\ f \notin dir

\* ---- the request handlers

Gens == {r \in Reqs : rq[r].pc # "none"}
Segs == {r \in SegReqs : sg[r].pc # "none"}

Ok200(q) == q.resp # <<>> /\ q.resp[1].status = 200

HoldsObject(owner, b, name, content) ==
  \E o \in storage :
    o.bucket = b /\ o.name = name /\ o.owner = owner /\ o.content = content

\* C3: /generate-image goes generate -> fetch image -> buffer -> upload ->
\* return URL.  Each call is made only after the ones before it; nothing is
\* answered before the handler is over; and a 200 response is there only
\* when the 'images' bucket holds the object this request uploaded, the
\* body being [{url}] with url the public URL of exactly that filename.
C3_GenerateOrderAndUrl ==
  \A r \in Gens :
    LET q == rq[r] IN
      /\ "storage" \in q.calls => "imageHost" \in q.calls
      /\ "imageHost" \in q.calls => "replicate" \in q.calls
      /\ q.pc = "run" => q.calls = {"replicate"}
      /\ q.pc \in {"fetch", "buffer"} => q.calls = {"replicate", "imageHost"}
      /\ q.pc # "done" => q.resp = <<>>
      /\ (\E o \in storage : o.owner = <<"generate", r>>) =>
           q.pc \in {"uploaded", "done"}
      /\ Ok200(q) =>
           /\ q.up = "ok"
           /\ HoldsObject(<<"generate", r>>, "images", GenFilename(q.ts),
                          ReplicateUrl(r))
           /\ q.resp[1].body =
                <<[url |-> PublicUrl("images", GenFilename(q.ts))]>>

C3_Witness ==
  \E r \in Gens :
    /\ Ok200(rq[r])
    /\ dateNow > rq[r].ts
    /\ HoldsObject(<<"generate", r>>, "images", GenFilename(rq[r].ts),
                   ReplicateUrl(r))

\* C4: a successful /get-segments response holds storage URLs only:
\* combined_mask is the public URL of the combined mask this request
\* uploaded, and individual_masks has the length and the order of the
\* provider's masks list (empty without one), entry i being the public URL
\* of the object this request uploaded from provider mask i.
C4_SegmentsReturnsStorageUrls ==
  \A r \in Segs :
    LET q == sg[r]
        b == q.resp[1].body
    IN Ok200(q) =>
         /\ b.combined_mask = PublicUrl("masks", CombinedMaskFilename(q.ts))
         /\ HoldsObject(<<"segments", r>>, "masks",
                        CombinedMaskFilename(q.ts), ProviderCombined(r))
         /\ b.combined_mask # ProviderCombined(r)
         /\ Len(b.individual_masks) = (IF q.n < 0 THEN 0 ELSE q.n)
         /\ \A i \in 1..Len(b.individual_masks) :
              /\ b.individual_masks[i] =
                   PublicUrl("masks", MaskFilename(q.ts, i - 1))
              /\ HoldsObject(<<"segments", r>>, "masks",
                             MaskFilename(q.ts, i - 1), ProviderMask(r, i - 1))
              /\ b.individual_masks[i] # ProviderMask(r, i - 1)

C4_Witness ==
  \E r \in Segs :
    /\ Ok200(sg[r])
    /\ Len(sg[r].masks) >= 2
    /\ Len(sg[r].resp[1].body.individual_masks) = Len(sg[r].masks)

\* C5: a /generate-image request never has more than one response and has
\* exactly one when its handler is over, and a handler that is not over can
\* always take its next step.  The response is status 500 with body
\* {error: "Failed to generate image"} if a step threw or the upload
\* returned an error, and the 200 success body otherwise.
C5_GenerateOneResponse ==
  \A r \in Gens :
    LET q == rq[r]
        failed == q.err # NoError \/ q.up \in {"error", "throw"}
    IN /\ Len(q.resp) <= 1
       /\ q.pc # "done" => ENABLED GenStep(r)
       /\ q.pc = "done" =>
            /\ Len(q.resp) = 1
            /\ ~ ENABLED GenStep(r)
            /\ IF failed
                 THEN q.resp[1] =
                        [status |-> 500,
                         body |-> [error |-> "Failed to generate image"]]
                 ELSE q.resp[1] =
                        [status |-> 200,
                         body |-> <<[url |-> PublicUrl("images",
                                                       GenFilename(q.ts))]>>]

C5_Witness ==
  /\ \E r \in Gens : rq[r].pc = "done" /\ rq[r].up = "error"
                     /\ rq[r].resp[1].status = 500
  /\ \E r \in Gens : rq[r].pc = "done" /\ rq[r].up = ""
                     /\ rq[r].resp[1].status = 500

\* C6: /get-segments without currentImageUrl (absent or empty) is answered
\* 500 with error "Failed to analyze image segments" and details "No image
\* URL provided", and calls neither the image host, nor the segmentation
\* API, nor the storage bucket.
C6_NoImageUrlRejected ==
  \A r \in Segs :
    sg[r].url \in {"", "undefined"} =>
      /\ sg[r].resp =
           <<[status |-> 500,
              body |-> [error |-> "Failed to analyze image segments",
                        details |-> "No image URL provided"]]>>
      /\ sg[r].calls = {}
      /\ ~ \E o \in storage : o.owner = <<"segments", r>>

C6_Witness ==
  \E r \in Segs :
    /\ sg[r].url = ""
    /\ sg[r].pc = "done"
    /\ Len(sg[r].resp) = 1
    /\ sg[r].resp[1].status = 500

\* The filenames request r of /generate-image has sent an upload for.
GenUploadsSent(r) ==
  IF "storage" \in rq[r].calls
    THEN {<<"images", GenFilename(rq[r].ts)>>} ELSE {}

\* The filenames request r of /get-segments has sent an upload for.
SegUploadsSent(r) ==
  LET q == sg[r] IN
    (IF "storage" \in q.calls
       THEN {<<"masks", CombinedMaskFilename(q.ts)>>} ELSE {})
    \cup {<<"masks", MaskFilename(q.ts, i - 1)>> :
            i \in {j \in 1..Len(q.tasks) :
                     q.tasks[j].pc \notin {"fetch", "failed"}}}

\* C7: no two /generate-image requests upload to the same filename, and no
\* two /get-segments requests upload to the same mask filename.
C7_FilenamesUnique ==
  /\ \A r1, r2 \in Reqs :
       r1 # r2 => GenUploadsSent(r1) \cap GenUploadsSent(r2) = {}
  /\ \A r1, r2 \in SegReqs :
       r1 # r2 => SegUploadsSent(r1) \cap SegUploadsSent(r2) = {}

\* ---- ToolPanel

\* The number of follow-ups for call c: timers that are pending and
\* response.create events that have been sent.
FollowUps(c) ==
  LET pending == {o \in BagToSet(timers) : o.call = c}
      done == {m \in BagToSet(sent) : m.type = "response.create" /\ m.call = c}
  IN Sum([o \in pending |-> CopiesIn(o, timers)], pending)
     + Sum([m \in done |-> CopiesIn(m, sent)], done)

\* The number of session.update events sent in session s.
Registrations(s) ==
  LET in == {e \in BagToSet(registered) : e.session = s}
  IN Sum([e \in in |-> CopiesIn(e, registered)], in)

\* C8: ToolPanel registers its tools exactly once per session: session.update
\* is never sent while the session is inactive, never twice in one session,
\* and it has been sent in the current session once the effects have run on a
\* stream whose oldest event is session.created.
C8_RegistersOncePerSession ==
  /\ \A e \in BagToSet(registered) : e.active
  /\ \A s \in 1..MaxSessions : Registrations(s) <= 1
  /\ (isSessionActive /\ ~dirty /\ events # <<>>
        /\ events[Len(events)].type = "session.created")
       => \E e \in BagToSet(registered) : e.session = session /\ e.active

\* C9: a function call of a response.done event is handled once, and gets
\* one follow-up response.create, with the instructions of its function.
C9_EachCallHandledOnce ==
  /\ \A c \in 1..MaxCalls : processed[c] <= 1 /\ FollowUps(c) <= 1
  /\ \A o \in BagToSet(timers) : IsFunctionCall(o)
  /\ \A m \in BagToSet(sent) :
       m.type = "response.create" =>
         \E name \in FunctionNames : m.instructions = Instructions(name)

\* C10: functionCallOutput is the output of a generate_image call only when
\* the /generate-image request of that call has produced an image URL and
\* currentImageUrl holds it.
C10_OutputOnlyAfterImage ==
  functionCallOutput.name = "generate_image" =>
    currentImageUrl = functionCallOutput.call

\* A render has been committed since isSessionActive last changed to false.
InactiveCommitted == ~isSessionActive /\ lastActive = Dep(FALSE)

\* C11: when isSessionActive becomes false, the commit that follows leaves
\* functionAdded false and functionCallOutput, currentImageUrl and error
\* null, whatever the other effect set in that commit; and from that commit
\* on, while the session is inactive, the panel shows the "Start the session
\* to use these tools..." placeholder and no tool output.
C11_ResetOnInactive ==
  /\ [][(~isSessionActive /\ lastActive # Dep(FALSE) /\ lastActive' = Dep(FALSE))
          => /\ functionAdded' = FALSE
             /\ functionCallOutput' = Null
             /\ currentImageUrl' = 0
             /\ error' = ""]_vars
  /\ [](InactiveCommitted
          => shown = <<"p", "Start the session to use these tools...">>)

\* A session in which a tool was registered and a function call was handled
\* has been stopped, and the reset has been made.
C11_Witness ==
  /\ InactiveCommitted
  /\ session >= 1
  /\ BagToSet(registered) # {}
  /\ TotalRuns >= 1
  /\ functionAdded = FALSE
  /\ functionCallOutput = Null
  /\ currentImageUrl = 0
  /\ error = ""
  /\ shown = <<"p", "Start the session to use these tools...">>

\* ---- /get-segments failures

\* The objects request r has put in the masks bucket.
UploadedBy(r) == {o \in storage : o.owner = <<"segments", r>>}

\* C12: /get-segments answers 200 only if the combined mask and every
\* individual mask were uploaded; without combined_mask in the provider's
\* response it answers 500 and sends no upload; and a request that has
\* answered 500 has no object in the masks bucket, at the response or later.
C12_FailedRequestLeavesNoUpload ==
  \A r \in Segs :
    /\ Ok200(sg[r]) =>
         /\ HoldsObject(<<"segments", r>>, "masks",
                        CombinedMaskFilename(sg[r].ts), ProviderCombined(r))
         /\ \A i \in 1..Len(sg[r].masks) :
              HoldsObject(<<"segments", r>>, "masks",
                          MaskFilename(sg[r].ts, i - 1), sg[r].masks[i])
    /\ sg[r].err = Thrown("Invalid response from Segmind API") =>
         /\ sg[r].resp # <<>>
         /\ sg[r].resp[1].status = 500
         /\ "storage" \notin sg[r].calls
    /\ (sg[r].resp # <<>> /\ sg[r].resp[1].status = 500) => UploadedBy(r) = {}

\* ---- errors in a sweep

\* The files of the listing after the one the loop is at.
Remaining == {files[i] : i \in (idx + 1)..Len(files)}

\* The timer is armed for one interval after the sweep that last started.
TimerArmed == sweepStart # NoSweep => nextFire = Rearm(sweepStart)

\* C13: an error at the stat or the unlink of one file is caught: the sweep
\* ends, the timer stays armed for the next sweep, and the old files that
\* come later in the same listing have been deleted when the sweep ends.
C13_ErrorDoesNotStopSweep ==
  /\ TimerArmed
  /\ (pcSweep = "done" /\ sweepErr) =>
       \A f \in Remaining : ~(f \in dir /\ IsOld(ctime[f], now))

====
